---- MODULE Spec2Model ----
(***************************************************************************)
(* Crawl engine of SEO-Tools: FastCrawler (aiohttp) and PlaywrightCrawler  *)
(* run by the Celery task crawl_site, which owns the CrawlJob life cycle.  *)
(*                                                                         *)
(* One asyncio coroutine step (from one suspension point to the next) is   *)
(* one action.  URLs are small integers; a site gives, for every URL, the  *)
(* hrefs of its document, the HTTP status it answers with, and whether its *)
(* fetch may raise a transient error.                                      *)
(***************************************************************************)
EXTENDS Integers, Sequences, FiniteSets, TLC

\* ------------------------------------------------------------------ bounds
MaxDepthBound == 2
MaxPagesBound == 4

\* ------------------------------------------------------- program constants
RetryAttempts == 3
GatherLimit == 10
LinksPerPage == 10

\* -------------------------------------------------------------------- URLs
StartUrl == 0
ExternalUrl == 4
PdfUrl == 5
\* The URL of page 1 followed by a fragment ("/1#top").
FragmentUrl == 16
Urls == 0..16

\* urldefrag: the URL without its fragment.
StripFragment(u) == IF u = FragmentUrl THEN 1 ELSE u
\* "absolute_url = urljoin(url, href)": the href is made absolute against
\* the page's URL; urljoin keeps the fragment of the href.
Resolve(base, href) == href

Netloc(u) == IF u = ExternalUrl THEN "other.com" ELSE "ex.com"

\* BaseCrawler._should_crawl_url: empty URLs and the skip extensions are
\* rejected (PdfUrl is the one URL of the model that ends in ".pdf").
HasSkipExtension(u) == u = PdfUrl
ShouldCrawlUrl(u) == ~HasSkipExtension(u)

\* hashlib.sha256(url.encode()).hexdigest(): a fixed-length digest, one per
\* URL string.
UrlHash(u) == <<"sha256", u>>

\* ------------------------------------------------------------------- sites
NoLinks == [u \in Urls |-> << >>]
AllOk == [u \in Urls |-> 200]

SiteFan ==
  [hrefs  |-> [NoLinks EXCEPT ![0] = <<1, 2, 4, 5>>, ![1] = <<3, 0>>,
                              ![2] = <<3>>, ![3] = <<1>>],
   status |-> AllOk,
   flaky  |-> {},
   malformed |-> {}]

SiteDown ==
  [hrefs  |-> NoLinks,
   status |-> [AllOk EXCEPT ![0] = 500],
   flaky  |-> {0},
   malformed |-> {}]

SiteChain ==
  [hrefs  |-> [NoLinks EXCEPT ![0] = <<1, 1>>, ![1] = <<2>>, ![2] = <<3>>],
   status |-> [AllOk EXCEPT ![0] = 404, ![1] = 404],
   flaky  |-> {0, 1},
   malformed |-> {}]

\* A start page with three internal links and one external link; URL 1 may
\* fail transiently and the document of URL 2 holds an href that urljoin
\* rejects (ValueError), so _parse_page raises on it.
SiteHub ==
  [hrefs  |-> [NoLinks EXCEPT ![0] = <<1, 2, 3, 4>>],
   status |-> [AllOk EXCEPT ![2] = 404],
   flaky  |-> {1},
   malformed |-> {2}]

\* A single page whose document cannot be parsed.
SiteBad ==
  [hrefs  |-> NoLinks,
   status |-> AllOk,
   flaky  |-> {0},
   malformed |-> {0}]

\* A start page with eleven internal links; the page of the first link has
\* two internal links of its own.
SiteWide ==
  [hrefs  |-> [NoLinks EXCEPT ![0] = <<1, 2, 3, 6, 7, 8, 9, 10, 11, 12, 13>>,
                              ![1] = <<14, 15>>],
   status |-> AllOk,
   flaky  |-> {},
   malformed |-> {}]
\* The URLs of SiteWide whose server is slow to answer.
SlowUrls == {2, 3, 6, 7, 8, 9, 10, 11, 12}

\* A start page with eleven links: to itself, to a PDF, eight more to
\* itself (its navigation), and last a link to page 1.
SiteHome ==
  [hrefs  |-> [NoLinks EXCEPT ![0] = <<0, 5, 0, 0, 0, 0, 0, 0, 0, 0, 1>>],
   status |-> AllOk,
   flaky  |-> {},
   malformed |-> {}]

\* A start page with the hrefs "/1" and "/1#top": the server answers both
\* requests with the document of page 1 (a fragment is not sent).
SiteFrag ==
  [hrefs  |-> [NoLinks EXCEPT ![0] = <<1, FragmentUrl>>],
   status |-> AllOk,
   flaky  |-> {},
   malformed |-> {}]

SiteTable == [fan |-> SiteFan, down |-> SiteDown, chain |-> SiteChain,
              hub |-> SiteHub, bad |-> SiteBad, wide |-> SiteWide,
              home |-> SiteHome, frag |-> SiteFrag]
Sites == {"fan", "down", "chain", "hub", "bad", "home", "frag"}

Modes == {"fast", "js"}
Delays == {0, 1}

\* --------------------------------------------------------------- variables
VARIABLES
  config,        \* job.mode and the crawler_config handed to the crawler
  visited_urls,  \* self.visited_urls
  pages,         \* self.pages
  errors,        \* self.errors
  should_stop,   \* self._should_stop
  res,           \* self.session / self.context / self.browser
  tasks,         \* the _crawl_url coroutines of the run
  crawlPc,       \* position of crawl(): "idle", "running", "returned", "raised"
  result,        \* the CrawlResult crawl() returned
  job,           \* the CrawlJob row
  taskPc,        \* position of the crawl_site task
  db,            \* committed Page and Link rows of the job
  deliveries,    \* how many times the broker has delivered the task
  stoppedAt,     \* len(self.pages) when stop() was called, -1 before
  tabs,          \* the browser tabs context.new_page() opened, in order
  crawler,       \* the crawler CrawlerFactory.create returned
  exc,           \* the exception that is propagating in crawl_site, or "none"
  tenant,        \* the Tenant whose quota is checked
  usage,         \* the committed APIUsage row of the tenant for the month
  redis,         \* the Redis counter api_usage:{tenant}:{year}:{month}
  rate_limit_logs, \* the committed RateLimitLog rows
  calls,         \* the calls of RateLimitService.check_and_increment
  now,           \* the event loop's clock (loop.time()), in seconds
  webhook,       \* the Webhook row
  hook_deliveries, \* the committed WebhookDelivery rows of one event, in id order
  posts,         \* the HTTP POSTs sent to webhook.url for the event
  batch,         \* the run of process_pending_retries: its position and the rows it selected
  request        \* the request RateLimitMiddleware.dispatch is handling

crawlerVars == <<visited_urls, pages, errors, should_stop, res, tasks,
                 crawlPc, result, stoppedAt, tabs, crawler>>
jobVars == <<job, taskPc, db, deliveries, exc>>
rateVars == <<tenant, usage, redis, rate_limit_logs, calls>>
hookVars == <<webhook, hook_deliveries, posts, batch>>
vars == <<config, visited_urls, pages, errors, should_stop, res, tasks,
          crawlPc, result, job, taskPc, db, deliveries, stoppedAt, crawler, exc, tabs,
          tenant, usage, redis, rate_limit_logs, calls, now,
          webhook, hook_deliveries, posts, batch, request>>

\* No webhook event and no request is being handled.
NoBatch == [pc |-> "idle", ids |-> << >>]
IdleHook ==
  /\ webhook = [max_retries |-> 0, is_active |-> FALSE, retry_delay |-> 0]
  /\ hook_deliveries = << >>
  /\ posts = << >>
  /\ batch = NoBatch
\* kind and tenant_active are what the request brings, n its number;
\* call_next counts the calls of call_next(request); handler is how the
\* last of them ended; response is what dispatch returns ("raised": it
\* raises).
NoRequest ==
  [kind |-> "none", tenant_active |-> FALSE, n |-> 0, pc |-> "idle",
   call_next |-> 0, handler |-> "none", response |-> "none"]

mode == config.mode
max_depth_plus_one == config.max_depth + 1
\* BaseCrawler.__init__: self.max_depth = config.get("max_depth", 3)
max_depth == config.max_depth
max_pages == config.max_pages
delay == config.delay
site == SiteTable[config.site]

\* ------------------------------------------------------------ small helpers
Range(s) == {s[i] : i \in 1..Len(s)}
Take(s, n) == SubSeq(s, 1, IF Len(s) < n THEN Len(s) ELSE n)

\* A link as _crawl_url receives it: FastCrawler's outgoing_links holds URL
\* strings, PlaywrightCrawler's holds dicts {"url", "anchor_text"}.
StrItem(u) == [kind |-> "str", url |-> u]
DictItem(u) == [kind |-> "dict", url |-> u]


\* --------------------------------------------------------------- resources
NoResource == [acquired |-> FALSE, closes |-> 0]
Acquire(r, names) ==
  [n \in DOMAIN r |-> IF n \in names THEN [r[n] EXCEPT !.acquired = TRUE] ELSE r[n]]
\* "if self.session: await self.session.close()": every handle that was
\* assigned gets one more close() call (the handle is never reset to None).
CloseAll(r, names) ==
  [n \in DOMAIN r |->
     IF n \in names /\ r[n].acquired
       THEN [r[n] EXCEPT !.closes = r[n].closes + 1] ELSE r[n]]
IsOpen(n) == res[n].acquired /\ res[n].closes = 0
ModeResources == IF crawler.kind = "FastCrawler" THEN {"session"} ELSE {"context", "browser"}
\* The handle _fetch_page works on: self.session / self.context.
FetchHandle == IF crawler.kind = "FastCrawler" THEN "session" ELSE "context"

\* crawl(): what the acquisition at the start of the run can end in.
AcquireOutcomes ==
  IF crawler.kind = "FastCrawler" THEN {"ok", "session_fail"}
  ELSE {"ok", "launch_fail", "context_fail"}
Acquired(outcome) ==
  CASE outcome = "ok" -> ModeResources
    [] outcome = "context_fail" -> {"browser"}
    [] OTHER -> {}

\* -------------------------------------------------------------- _parse_page
LinkItem(u) == IF crawler.kind = "FastCrawler" THEN StrItem(u) ELSE DictItem(u)

AllLinks(u, hrefs) == [k \in 1..Len(hrefs) |-> LinkItem(Resolve(u, hrefs[k]))]
RECURSIVE InternalLinks(_, _)
\* "if parsed.netloc == base_domain: outgoing_links.append(absolute_url)"
InternalLinks(u, hrefs) ==
  IF hrefs = << >> THEN << >>
  ELSE IF Netloc(Resolve(u, Head(hrefs))) = Netloc(u)
         THEN <<LinkItem(Resolve(u, Head(hrefs)))>> \o InternalLinks(u, Tail(hrefs))
         ELSE InternalLinks(u, Tail(hrefs))

\* _parse_page raises when the document holds an href that urljoin/urlparse
\* rejects; nothing in _parse_page catches it.
ParseRaises(u) == u \in site.malformed

ParsePage(u, status_code, depth) ==
  [url |-> u, url_hash |-> UrlHash(u), status_code |-> status_code,
   depth |-> depth, outgoing_links |-> InternalLinks(u, site.hrefs[u])]

\* --------------------------------------------------------------- _fetch_page
\* session.get() / page.goto() hand back the response whatever its status:
\* no raise_for_status, so no HTTP status raises.
StatusRaisesAlways(status_code) == status_code >= 400
StatusRaises(status_code) == FALSE

\* tenacity: stop_after_attempt(3), retry on any exception, reraise=True.
RetryExhausted(hist) == Len(hist) >= RetryAttempts

\* What the network does to one attempt: "resp" (a response comes back) or
\* "exc" (timeout, connection error, closed handle); hist keeps these.  An
\* attempt made on a closed handle raises; one in flight when the handle is
\* closed may drain or abort; otherwise only a flaky URL raises.
AttemptOutcomes(t) ==
  IF ~t.live THEN {"exc"}
  ELSE IF ~IsOpen(FetchHandle) \/ t.item.url \in site.flaky THEN {"exc", "resp"}
  ELSE {"resp"}

AttemptResult(t, o) ==
  IF o = "resp" /\ StatusRaises(site.status[t.item.url]) THEN "exc" ELSE o

\* ---------------------------------------------------------------- _crawl_url
MarkVisitedNever(v, u) == v
\* self.visited_urls.add(url)
MarkVisited(v, u) == v \cup {u}

StartCheckNoVisited(item, depth, v) ==
  IF should_stop THEN "skip"
  ELSE IF depth > max_depth THEN "skip"
  ELSE IF Len(pages) >= max_pages THEN "skip"
  ELSE IF item.kind = "dict" THEN "raise"
  ELSE IF ~ShouldCrawlUrl(item.url) THEN "skip"
  ELSE "go"

\* The stopping conditions at the top of _crawl_url, in the code's order.
\* "url in self.visited_urls" hashes url: a dict raises TypeError.
StartCheck(item, depth, v) ==
  IF should_stop THEN "skip"
  ELSE IF depth > max_depth THEN "skip"
  ELSE IF Len(pages) >= max_pages THEN "skip"
  ELSE IF item.kind = "dict" THEN "raise"
  ELSE IF item.url \in v THEN "skip"
  ELSE IF ~ShouldCrawlUrl(item.url) THEN "skip"
  ELSE "go"

\* "if self.delay > 0 and len(self.pages) > 0: await asyncio.sleep(...)"
AfterMarkPc == IF delay > 0 /\ Len(pages) > 0 THEN "sleep" ELSE "fetch"

\* page_obj is the local of PlaywrightCrawler._crawl_url: 0 stands for None,
\* k > 0 for the k-th tab of the run.  wake is the time at which the timer
\* of asyncio.sleep expires, started the time at which _fetch_page was
\* called (-1: not yet).
NewTask(item, depth, parent) ==
  [item |-> item, depth |-> depth, pc |-> "new", hist |-> << >>,
   parent |-> parent, live |-> FALSE, page_obj |-> 0, wake |-> -1, started |-> -1]

\* "await asyncio.sleep(self.delay)": every call sets a timer of its own.
Sleeps(t) == [t EXCEPT !.pc = "sleep", !.wake = now + delay]
\* "await self._fetch_page(url)" is called.
Fetches(t, live) == [t EXCEPT !.pc = "fetch", !.live = live, !.started = now]
\* The step after the URL was marked visited: sleep or fetch.
AfterMark(t, live) == IF AfterMarkPc = "sleep" THEN Sleeps(t) ELSE Fetches(t, live)

\* ------------------------------------------------------------ browser tabs
\* "page = await self.context.new_page()" at the start of every attempt of
\* PlaywrightCrawler._fetch_page; on a closed context new_page raises and no
\* tab exists.
OpenTab(ts, live) ==
  IF crawler.kind = "PlaywrightCrawler" /\ live
    THEN Append(ts, [closes |-> 0, exit |-> "open", shot |-> "none"])
    ELSE ts
\* "await page.close()", n times, on tab k.
CloseTab(ts, k, n, why) ==
  IF k = 0 THEN ts
  ELSE [ts EXCEPT ![k] = [@ EXCEPT !.closes = @ + n, !.exit = why]]
\* _fetch_page: "except PlaywrightError: await page.close(); raise ..."
NavFailureCloses == 1
\* _crawl_url: "await page_obj.close(); page_obj = None"
AfterCloseKept(page_obj) == page_obj
AfterClose(page_obj) == 0
\* _crawl_url: "finally: if page_obj: await page_obj.close()"
FinallyCloses(page_obj) == IF page_obj # 0 THEN 1 ELSE 0
\* _capture_screenshot swallows every exception and returns None.
ScreenshotOutcomes ==
  IF crawler.capture_screenshot THEN {"ok", "failed"} ELSE {"none"}

\* A coroutine runs from its call to its first suspension in one step.
Started(t, v) ==
  LET c == StartCheck(t.item, t.depth, v) IN
  IF c = "go"
    THEN [task |-> AfterMark(t, IsOpen(FetchHandle)),
          visited |-> MarkVisited(v, t.item.url)]
    ELSE [task |-> [t EXCEPT !.pc = IF c = "raise" THEN "raised" ELSE "skipped"],
          visited |-> v]

RECURSIVE StartAll(_, _, _)
\* asyncio.gather wraps the coroutines in tasks; the loop runs their first
\* steps back to back, in creation order.
StartAll(ids, ts, v) ==
  IF ids = << >> THEN [tasks |-> ts, visited |-> v]
  ELSE LET s == Started(ts[Head(ids)], v)
       IN StartAll(Tail(ids), [ts EXCEPT ![Head(ids)] = s.task], s.visited)

RECURSIVE ChildTasks(_, _, _, _)
\* "for link_url in page.outgoing_links: if len(self.pages) < self.max_pages:
\*      tasks.append(self._crawl_url(link_url, depth + 1))"; n is len(self.pages).
ChildTasks(links, depth, parent, n) ==
  IF links = << >> THEN << >>
  ELSE IF n < max_pages
         THEN <<NewTask(Head(links), depth + 1, parent)>>
              \o ChildTasks(Tail(links), depth, parent, n)
         ELSE ChildTasks(Tail(links), depth, parent, n)

\* "await asyncio.gather(*tasks[:10])"
Gathered(ts) == Take(ts, GatherLimit)

ChildIds(p) == SelectSeq([i \in 1..Len(tasks) |-> i], LAMBDA i : tasks[i].parent = p)
Settled(t) == t.pc \in {"done", "skipped", "raised"}
Root == 1
RootItem == StrItem(StartUrl)

RECURSIVE JsLoop(_, _)
\* PlaywrightCrawler: "for link_url in crawled_page.outgoing_links[:10]:
\*   if len(self.pages) < self.max_pages: await self._crawl_url(link_url, depth + 1)
\*   else: break".  "descend" stands for a child that passes its checks.
JsLoop(links, depth) ==
  IF links = << >> THEN "done"
  ELSE IF Len(pages) < max_pages
         THEN LET c == StartCheck(Head(links), depth + 1, visited_urls) IN
              IF c = "skip" THEN JsLoop(Tail(links), depth)
              ELSE IF c = "raise" THEN "raise" ELSE "descend"
         ELSE "done"

ErrorOf(t) == [url |-> t.item.url, depth |-> t.depth]

ExceptCatchesNothing == FALSE
\* _crawl_url: "except Exception as e: self.errors.append({...})" around the
\* fetch, the parsing and the crawling of the children.
ExceptCatches == TRUE

\* ------------------------------------------------------------- crawl() start
\* crawl(): acquire the fetch resources, then "await self._crawl_url(
\* self.start_url, depth=0)" runs inline up to its first suspension.  A failed
\* acquisition raises CrawlerException; the finally block closes what exists.
CrawlBegin ==
  /\ taskPc = "crawl" /\ crawlPc = "idle"
  /\ \E o \in AcquireOutcomes :
       IF o = "ok"
         THEN /\ res' = Acquire(res, Acquired(o))
              /\ LET t == NewTask(RootItem, 0, 0)
                     c == StartCheck(t.item, t.depth, visited_urls)
                 IN IF c = "go"
                      THEN /\ tasks' = <<AfterMark(t, TRUE)>>
                           /\ visited_urls' = MarkVisited(visited_urls, t.item.url)
                           /\ tabs' = OpenTab(tabs, AfterMarkPc = "fetch")
                      ELSE /\ tasks' = <<[t EXCEPT !.pc = "skipped"]>>
                           /\ visited_urls' = visited_urls
                           /\ tabs' = tabs
              /\ crawlPc' = "running"
              /\ taskPc' = taskPc
              /\ exc' = exc
         ELSE /\ res' = CloseAll(Acquire(res, Acquired(o)), Acquired(o))
              /\ crawlPc' = "raised"
              /\ taskPc' = "handler"
              /\ exc' = "CrawlerException"
              /\ UNCHANGED <<tasks, visited_urls, tabs>>
  /\ UNCHANGED <<hookVars, request, now, rateVars, config, pages, errors, should_stop, result, job, db, deliveries,
                 stoppedAt, crawler>>

\* asyncio.sleep(self.delay) is over: the coroutine goes on to _fetch_page
\* (the stop flag is not read again).
WakeFromSleep(i) ==
  /\ crawlPc = "running" /\ tasks[i].pc = "sleep"
  /\ tasks' = [tasks EXCEPT ![i] = Fetches(@, IsOpen(FetchHandle))]
  /\ tabs' = OpenTab(tabs, IsOpen(FetchHandle))
  /\ UNCHANGED <<hookVars, request, now, rateVars, config, visited_urls, pages, errors, should_stop, res, crawlPc,
                 result, job, taskPc, db, deliveries, stoppedAt, crawler, exc>>

\* tenacity's wait_exponential is over: the next attempt is made.
RetryAttempt(i) ==
  /\ crawlPc = "running" /\ tasks[i].pc = "backoff"
  /\ tasks' = [tasks EXCEPT ![i].pc = "fetch", ![i].live = IsOpen(FetchHandle)]
  /\ tabs' = OpenTab(tabs, IsOpen(FetchHandle))
  /\ UNCHANGED <<hookVars, request, now, rateVars, config, visited_urls, pages, errors, should_stop, res, crawlPc,
                 result, job, taskPc, db, deliveries, stoppedAt, crawler, exc>>

\* One attempt of _fetch_page raises: tenacity retries, or re-raises into
\* _crawl_url's "except Exception", which appends the error.
FetchFails(i) ==
  /\ crawlPc = "running" /\ tasks[i].pc = "fetch"
  /\ \E o \in AttemptOutcomes(tasks[i]) :
       /\ AttemptResult(tasks[i], o) = "exc"
       /\ LET h == Append(tasks[i].hist, o) IN
          IF RetryExhausted(h)
            THEN IF ExceptCatches
                   THEN /\ tasks' = [tasks EXCEPT ![i].hist = h, ![i].pc = "done"]
                        /\ errors' = Append(errors, ErrorOf(tasks[i]))
                   ELSE /\ tasks' = [tasks EXCEPT ![i].hist = h, ![i].pc = "raised"]
                        /\ errors' = errors
            ELSE /\ tasks' = [tasks EXCEPT ![i].hist = h, ![i].pc = "backoff"]
                 /\ errors' = errors
  /\ tabs' = IF crawler.kind = "PlaywrightCrawler" /\ tasks[i].live
              THEN CloseTab(tabs, Len(tabs), NavFailureCloses, "nav_fail")
              ELSE tabs
  /\ UNCHANGED <<hookVars, request, now, rateVars, config, visited_urls, pages, should_stop, res, crawlPc,
                 result, job, taskPc, db, deliveries, stoppedAt, crawler, exc>>

\* FastCrawler._crawl_url after a response: parse, append the page, create
\* the child coroutines and gather the first ten.  A _parse_page that raises
\* lands in "except Exception": the error is appended, no page.
FastFetchReturns(i) ==
  /\ crawler.kind = "FastCrawler" /\ crawlPc = "running" /\ tasks[i].pc = "fetch"
  /\ \E o \in AttemptOutcomes(tasks[i]) :
       /\ AttemptResult(tasks[i], o) = "resp"
       /\ LET t == tasks[i]
              page == ParsePage(t.item.url, site.status[t.item.url], t.depth)
              kids == IF t.depth < max_depth
                        THEN Gathered(ChildTasks(page.outgoing_links, t.depth, i,
                                                 Len(pages) + 1))
                        ELSE << >>
          IN IF ParseRaises(t.item.url)
               THEN /\ pages' = pages
                    /\ errors' = Append(errors, ErrorOf(t))
                    /\ tasks' = [tasks EXCEPT ![i].hist = Append(t.hist, "resp"),
                                              ![i].pc = "done"]
               ELSE /\ pages' = Append(pages, page)
                    /\ errors' = errors
                    /\ tasks' = [tasks EXCEPT ![i].hist = Append(t.hist, "resp"),
                                              ![i].pc = IF kids = << >> THEN "done"
                                                        ELSE "gather"] \o kids
  /\ UNCHANGED <<hookVars, request, now, rateVars, config, visited_urls, should_stop, res, crawlPc,
                 result, job, taskPc, db, deliveries, stoppedAt, crawler, exc, tabs>>

\* The tasks gather created take their first steps.
StartChildren(p) ==
  /\ crawlPc = "running" /\ tasks[p].pc = "gather"
  /\ \E i \in 1..Len(tasks) : tasks[i].parent = p /\ tasks[i].pc = "new"
  /\ LET s == StartAll(ChildIds(p), tasks, visited_urls)
     IN /\ tasks' = s.tasks
        /\ visited_urls' = s.visited
  /\ UNCHANGED <<hookVars, request, now, rateVars, config, pages, errors, should_stop, res, crawlPc,
                 result, job, taskPc, db, deliveries, stoppedAt, crawler, exc, tabs>>

\* gather returns once every child has finished; an exception of a child
\* surfaces in the parent's try block.
GatherDone(p) ==
  /\ crawlPc = "running" /\ tasks[p].pc = "gather"
  /\ \A i \in 1..Len(tasks) : tasks[i].parent = p => Settled(tasks[i])
  /\ tasks' = [tasks EXCEPT ![p].pc = "done"]
  /\ errors' = IF \E i \in 1..Len(tasks) : tasks[i].parent = p /\ tasks[i].pc = "raised"
                 THEN Append(errors, ErrorOf(tasks[p])) ELSE errors
  /\ UNCHANGED <<hookVars, request, now, rateVars, config, visited_urls, pages, should_stop, res, crawlPc,
                 result, job, taskPc, db, deliveries, stoppedAt, crawler, exc, tabs>>

\* PlaywrightCrawler._crawl_url after _fetch_page returned the tab: the
\* screenshot if enabled, then parse and append, then "await
\* page_obj.close()".  A _parse_page that raises lands in "except Exception"
\* and the finally block closes the tab.
JsFetchReturns(i) ==
  /\ crawler.kind = "PlaywrightCrawler" /\ crawlPc = "running" /\ tasks[i].pc = "fetch"
  /\ \E o \in AttemptOutcomes(tasks[i]), shot \in ScreenshotOutcomes :
       /\ AttemptResult(tasks[i], o) = "resp"
       /\ LET t == tasks[i]
              page_obj == Len(tabs)
              shown == [tabs EXCEPT ![page_obj].shot = shot]
          IN IF ParseRaises(t.item.url)
               THEN /\ pages' = pages
                    /\ errors' = Append(errors, ErrorOf(t))
                    /\ tabs' = CloseTab(shown, page_obj, FinallyCloses(page_obj),
                                        "parse_fail")
                    /\ tasks' = [tasks EXCEPT ![i].hist = Append(t.hist, "resp"),
                                              ![i].page_obj = page_obj,
                                              ![i].pc = "done"]
               ELSE /\ pages' = Append(pages, ParsePage(t.item.url,
                                                        site.status[t.item.url], t.depth))
                    /\ errors' = errors
                    /\ tabs' = shown
                    /\ tasks' = [tasks EXCEPT ![i].hist = Append(t.hist, "resp"),
                                              ![i].page_obj = page_obj,
                                              ![i].pc = "closing"]
  /\ UNCHANGED <<hookVars, request, now, rateVars, config, visited_urls, should_stop, res, crawlPc,
                 result, job, taskPc, db, deliveries, stoppedAt, crawler, exc>>

\* The tab is closed and page_obj reset; the loop over outgoing_links[:10]
\* calls _crawl_url with each link dict.  The child's "url in
\* self.visited_urls" raises TypeError, which the parent's "except Exception"
\* records against the parent's URL; the finally block closes page_obj if set.
JsCrawlLinks(i) ==
  /\ crawler.kind = "PlaywrightCrawler" /\ crawlPc = "running" /\ tasks[i].pc = "closing"
  /\ LET t == tasks[i]
         page == pages[CHOOSE k \in 1..Len(pages) : pages[k].url = t.item.url]
         out == IF t.depth < max_depth
                  THEN JsLoop(Take(page.outgoing_links, LinksPerPage), t.depth)
                  ELSE "done"
         closed == CloseTab(tabs, t.page_obj, 1, "extracted")
         page_obj == AfterClose(t.page_obj)
     IN /\ out # "descend"
        /\ tasks' = [tasks EXCEPT ![i].pc = "done", ![i].page_obj = page_obj]
        /\ errors' = IF out = "raise" THEN Append(errors, ErrorOf(t)) ELSE errors
        /\ tabs' = CloseTab(closed, page_obj, FinallyCloses(page_obj), "extracted")
  /\ UNCHANGED <<hookVars, request, now, rateVars, config, visited_urls, pages, should_stop, res, crawlPc,
                 result, job, taskPc, db, deliveries, stoppedAt, crawler, exc>>

\* stop(): set the flag and close the handles that exist.
Stop ==
  /\ crawlPc = "running" /\ ~should_stop /\ ~Settled(tasks[Root])
  /\ should_stop' = TRUE
  /\ res' = CloseAll(res, ModeResources)
  /\ stoppedAt' = Len(pages)
  /\ UNCHANGED <<hookVars, request, now, rateVars, config, visited_urls, pages, errors, tasks, crawlPc,
                 result, job, taskPc, db, deliveries, tabs, crawler, exc>>

CrawlResult ==
  [total_discovered |-> Cardinality(visited_urls),
   total_crawled |-> Len(pages),
   total_failed |-> Len(errors)]
NoResult == [total_discovered |-> -1, total_crawled |-> -1, total_failed |-> -1]

\* PlaywrightCrawler.crawl closes context and browser after _crawl_url
\* (lines 87-88) and once more in its finally block; FastCrawler.crawl closes
\* the session in its finally block.
ClosesOnReturn(r) ==
  IF crawler.kind = "PlaywrightCrawler" THEN CloseAll(CloseAll(r, ModeResources), ModeResources)
  ELSE CloseAll(r, ModeResources)

\* _crawl_url(start_url) is over: crawl() builds the CrawlResult and releases
\* the resources.  An exception that left _crawl_url is re-raised by crawl()
\* as CrawlerException after the finally block closed the resources.
CrawlReturn ==
  /\ crawlPc = "running" /\ Settled(tasks[Root])
  /\ IF tasks[Root].pc = "raised"
       THEN /\ result' = result
            /\ res' = CloseAll(res, ModeResources)
            /\ crawlPc' = "raised"
            /\ taskPc' = "handler"
            /\ exc' = "CrawlerException"
       ELSE /\ result' = CrawlResult
            /\ res' = ClosesOnReturn(res)
            /\ crawlPc' = "returned"
            /\ taskPc' = "save"
            /\ exc' = exc
  /\ UNCHANGED <<hookVars, request, now, rateVars, config, visited_urls, pages, errors, should_stop, tasks,
                 job, db, deliveries, stoppedAt, crawler, tabs>>


\* ---------------------------------------------------------------- crawl_site
Terminal == {"completed", "failed", "cancelled"}

\* db.commit() succeeds or raises.
CommitOutcomes == {"ok", "fail"}

\* crawl_site lines 62-69: the configuration handed to the factory.
\* and, "if job.mode == 'js'", the Playwright keys (lines 72-81).
CrawlerConfig ==
  [start_url |-> StartUrl, max_depth |-> config.max_depth,
   max_pages |-> config.max_pages, delay |-> config.delay,
   capture_screenshot |-> (config.mode = "js" /\ config.capture_screenshot)]

NoCrawler ==
  [kind |-> "none", start_url |-> -1, max_depth |-> -1, max_pages |-> -1,
   delay |-> -1, capture_screenshot |-> FALSE]
\* BaseCrawler.__init__ (and PlaywrightCrawler.__init__ for the screenshot
\* option) read the attributes of the crawler from the config.
NewCrawler(kind, cfg) ==
  [kind |-> kind, start_url |-> cfg.start_url, max_depth |-> cfg.max_depth,
   max_pages |-> cfg.max_pages, delay |-> cfg.delay,
   capture_screenshot |-> (kind = "PlaywrightCrawler" /\ cfg.capture_screenshot)]

CreateAlwaysFast(m, cfg) == [raised |-> "none", crawler |-> NewCrawler("FastCrawler", cfg)]
\* CrawlerFactory.create
Create(m, cfg) ==
  IF m = "fast" THEN [raised |-> "none", crawler |-> NewCrawler("FastCrawler", cfg)]
  ELSE IF m = "js"
         THEN [raised |-> "none", crawler |-> NewCrawler("PlaywrightCrawler", cfg)]
         ELSE [raised |-> "ValueError: Unknown crawler mode", crawler |-> NoCrawler]

\* crawl_site: "job.status = 'running'; job.started_at = ...; db.commit()",
\* then the crawler is built by CrawlerFactory.create; a ValueError of the
\* factory goes to crawl_site's except clause.
TaskStart ==
  /\ taskPc = "queued"
  /\ job' = [job EXCEPT !.status = "running"]
  /\ LET c == Create(mode, CrawlerConfig) IN
       /\ crawler' = c.crawler
       /\ exc' = c.raised
       /\ taskPc' = IF c.raised = "none" THEN "crawl" ELSE "handler"
  /\ UNCHANGED <<hookVars, request, now, rateVars, config, visited_urls, pages, errors, should_stop, res, tasks,
                 crawlPc, result, stoppedAt, tabs, db, deliveries>>

ExternalHrefs(u) ==
  Cardinality({k \in 1..Len(site.hrefs[u]) : Netloc(site.hrefs[u][k]) # Netloc(u)})
PageRowCountingExternal(p) ==
  [url |-> p.url, url_hash |-> p.url_hash,
   internal_links_count |-> Len(p.outgoing_links),
   external_links_count |-> ExternalHrefs(p.url)]
\* "internal_links_count = len(crawled_page.outgoing_links);
\*  external_links_count = 0  # Not currently tracked by crawler"
PageRow(p) ==
  [url |-> p.url, url_hash |-> p.url_hash,
   internal_links_count |-> Len(p.outgoing_links),
   external_links_count |-> 0]

\* "Save pages to database": one Page per crawled page, an existing row with
\* the same url_hash is updated in place; then db.commit().
SavePages ==
  /\ taskPc = "save"
  /\ \E c \in CommitOutcomes :
       IF c = "ok"
         THEN /\ db' = [db EXCEPT !.pages = db.pages \cup {PageRow(pages[i]) : i \in 1..Len(pages)}]
              /\ taskPc' = "links"
              /\ exc' = exc
         ELSE /\ db' = db
              /\ taskPc' = "handler"
              /\ exc' = "OperationalError"
  /\ UNCHANGED <<hookVars, request, now, rateVars, config, crawlerVars, job, deliveries>>

HasDuplicates(s) == \E i, j \in 1..Len(s) : i < j /\ s[i] = s[j]

LinksOfUnresolved(src, targets, rows, committed) ==
  [raised |-> \E k \in 1..Len(targets) : targets[k].kind = "dict",
   pending |-> [k \in 1..Len(targets) |-> <<src, targets[k].url>>]]
RECURSIVE LinksOf(_, _, _, _)
\* The inner loop of link creation for one source page: a target that has no
\* Page of this job is skipped, a (source, target) that is already committed
\* is skipped (the session has autoflush=False: pending Links are not seen),
\* otherwise a Link is added to the session.  url_to_page_id.get(target_url)
\* hashes its key: a link dict raises TypeError.
LinksOf(src, targets, rows, committed) ==
  IF targets = << >> THEN [raised |-> FALSE, pending |-> << >>]
  ELSE IF Head(targets).kind = "dict" THEN [raised |-> TRUE, pending |-> << >>]
  ELSE LET rest == LinksOf(src, Tail(targets), rows, committed)
           tgt == Head(targets).url
       IN IF (\E r \in rows : r.url = tgt) /\ <<src, tgt>> \notin committed
            THEN [rest EXCEPT !.pending = <<(<<src, tgt>>)>> \o rest.pending]
            ELSE rest

RECURSIVE PendingLinks(_, _, _)
PendingLinks(ps, rows, committed) ==
  IF ps = << >> THEN [raised |-> FALSE, pending |-> << >>]
  ELSE LET here == IF \E r \in rows : r.url = Head(ps).url
                     THEN LinksOf(Head(ps).url, Head(ps).outgoing_links, rows, committed)
                     ELSE [raised |-> FALSE, pending |-> << >>]
           rest == PendingLinks(Tail(ps), rows, committed)
       IN IF here.raised THEN here
          ELSE [raised |-> rest.raised, pending |-> here.pending \o rest.pending]

\* "Now create Link objects", then db.commit(): the unique index on
\* (source_page_id, target_page_id) rejects a duplicate pair.
CreateLinks ==
  /\ taskPc = "links"
  /\ LET l == PendingLinks(pages, db.pages, db.links) IN
     \E c \in CommitOutcomes :
       IF ~l.raised /\ ~HasDuplicates(l.pending) /\ c = "ok"
         THEN /\ db' = [db EXCEPT !.links = db.links \cup Range(l.pending)]
              /\ taskPc' = "finish"
              /\ exc' = exc
         ELSE /\ db' = db
              /\ taskPc' = "handler"
              /\ exc' = IF l.raised THEN "TypeError"
                        ELSE IF c = "fail" THEN "OperationalError"
                        ELSE "IntegrityError"
  /\ UNCHANGED <<hookVars, request, now, rateVars, config, crawlerVars, job, deliveries>>

\* "if documents: meilisearch_service.index_pages_bulk(documents)" succeeds
\* or raises.
IndexOutcomes == {"ok", "failed"}
IndexFailurePropagates == TRUE
\* "except Exception as e: print(...)": the indexing error is not re-raised.
IndexFailureRaises == FALSE

\* The pages are indexed (errors are swallowed); then "job.status =
\* 'completed'", the counters of the CrawlResult, db.commit().
FinishJob ==
  /\ taskPc = "finish"
  /\ \E c \in CommitOutcomes,
        idx \in (IF db.pages = {} THEN {db.indexed} ELSE IndexOutcomes) :
       /\ db' = [db EXCEPT !.indexed = idx]
       /\ IF idx = "failed" /\ IndexFailureRaises
            THEN /\ job' = job
                 /\ taskPc' = "handler"
                 /\ exc' = "MeilisearchError"
            ELSE IF c = "ok"
                   THEN /\ job' = [status |-> "completed",
                                   pages_discovered |-> result.total_discovered,
                                   pages_crawled |-> result.total_crawled,
                                   pages_failed |-> result.total_failed,
                                   error_message |-> job.error_message]
                        /\ taskPc' = "project"
                        /\ exc' = exc
                   ELSE /\ job' = job
                        /\ taskPc' = "handler"
                        /\ exc' = "OperationalError"
  /\ UNCHANGED <<hookVars, request, now, rateVars, config, crawlerVars, deliveries>>

\* "project.last_crawl_at = datetime.utcnow(); db.commit()", then return.
UpdateProject ==
  /\ taskPc = "project"
  /\ \E c \in CommitOutcomes :
       /\ taskPc' = IF c = "ok" THEN "ended" ELSE "handler"
       /\ exc' = IF c = "ok" THEN exc ELSE "OperationalError"
  /\ UNCHANGED <<hookVars, request, now, rateVars, config, crawlerVars, job, db, deliveries>>

\* crawl_site's "except Exception": job.status = "failed", job.error_message
\* = str(e), commit, then "raise": the exception goes on to Celery.
ExceptHandler ==
  /\ taskPc = "handler"
  /\ job' = [job EXCEPT !.status = "failed", !.error_message = exc]
  /\ taskPc' = "on_failure"
  /\ exc' = exc
  /\ UNCHANGED <<hookVars, request, now, rateVars, config, crawlerVars, db, deliveries>>

\* CrawlTask.on_failure(exc, ...): job.status = "failed", job.error_message
\* = str(exc), commit.
OnFailure ==
  /\ taskPc = "on_failure"
  /\ job' = [job EXCEPT !.status = "failed", !.error_message = exc]
  /\ taskPc' = "ended"
  /\ exc' = exc
  /\ UNCHANGED <<hookVars, request, now, rateVars, config, crawlerVars, db, deliveries>>

\* ------------------------------------------------------- RateLimitService
MaxQuota == 2
MaxCalls == 2
Calls == 1..MaxCalls

NoUsage == [exists |-> FALSE, total_api_calls |-> 0]
\* "total_api_calls=0" of a new APIUsage; a tenant without a row has made no
\* call this month.
StoredCalls(u) == IF u.exists THEN u.total_api_calls ELSE 0

NoInfo == [limit |-> -1, remaining |-> -1, current |-> -1]
NoRaise == [limit |-> -1, current |-> -1]
\* pc: "idle", "loaded" (usage read into the session), "redis" (the row is
\* committed, the Redis counter is next), "done".  read is the session's
\* usage.total_api_calls; before and after are the stored count when the
\* call started and when it ended.
NoCall ==
  [pc |-> "idle", read |-> -1, before |-> -1, after |-> -1,
   outcome |-> "none", info |-> NoInfo, raised |-> NoRaise]

IdleRate ==
  /\ tenant = [max_api_calls_per_month |-> 0]
  /\ usage = NoUsage
  /\ redis = 0
  /\ rate_limit_logs = 0
  /\ calls = [c \in Calls |-> NoCall]

\* Every database or Redis round trip succeeds or raises.
IoOutcomes == {"ok", "fail"}

IsOverQuotaStrict(total, limit) == total > limit
\* "if usage.total_api_calls >= tenant.max_api_calls_per_month"
IsOverQuota(total, limit) == total >= limit

\* The calls are made one after the other.
NoCallInFlight == \A d \in Calls : calls[d].pc \in {"idle", "done"}

Failed(c, after) == [c EXCEPT !.pc = "done", !.outcome = "error", !.after = after]

\* _get_or_create_usage: select the row of the period, create it with zero
\* counters when there is none.
LoadUsage(c) ==
  /\ calls[c].pc = "idle"
  /\ \E o \in IoOutcomes :
       IF o = "ok"
         THEN /\ usage' = [exists |-> TRUE, total_api_calls |-> StoredCalls(usage)]
              /\ calls' = [calls EXCEPT ![c].pc = "loaded",
                                        ![c].read = StoredCalls(usage),
                                        ![c].before = StoredCalls(usage)]
         ELSE /\ usage' = usage
              /\ calls' = [calls EXCEPT ![c] = Failed([@ EXCEPT !.before = StoredCalls(usage)],
                                                      StoredCalls(usage))]
  /\ UNCHANGED <<hookVars, request, now, config, crawlerVars, jobVars, tenant, redis, rate_limit_logs>>

\* check_and_increment called by one request after the other.
GetOrCreateUsage(c) ==
  /\ NoCallInFlight
  /\ \A d \in Calls : d < c => calls[d].pc = "done"
  /\ LoadUsage(c)

\* Over quota: _log_rate_limit_violation commits a RateLimitLog, then
\* RateLimitException(limit, current) is raised.
DenyCall(c) ==
  /\ calls[c].pc = "loaded"
  /\ IsOverQuota(calls[c].read, tenant.max_api_calls_per_month)
  /\ \E o \in IoOutcomes :
       IF o = "ok"
         THEN /\ rate_limit_logs' = rate_limit_logs + 1
              /\ calls' = [calls EXCEPT
                   ![c].pc = "done", ![c].outcome = "denied",
                   ![c].after = StoredCalls(usage),
                   ![c].raised = [limit |-> tenant.max_api_calls_per_month,
                                  current |-> calls[c].read]]
         ELSE /\ rate_limit_logs' = rate_limit_logs
              /\ calls' = [calls EXCEPT ![c] = Failed(@, StoredCalls(usage))]
  /\ UNCHANGED <<hookVars, request, now, config, crawlerVars, jobVars, tenant, usage, redis>>

\* "usage.total_api_calls += 1; await self.db.commit()": the session writes
\* the value it computed.
IncrementUsage(c) ==
  /\ calls[c].pc = "loaded"
  /\ ~IsOverQuota(calls[c].read, tenant.max_api_calls_per_month)
  /\ \E o \in IoOutcomes :
       IF o = "ok"
         THEN /\ usage' = [usage EXCEPT !.total_api_calls = calls[c].read + 1]
              /\ calls' = [calls EXCEPT ![c].pc = "redis", ![c].read = @ + 1]
         ELSE /\ usage' = usage
              /\ calls' = [calls EXCEPT ![c] = Failed(@, StoredCalls(usage))]
  /\ UNCHANGED <<hookVars, request, now, config, crawlerVars, jobVars, tenant, redis, rate_limit_logs>>

\* "await self.redis.incr(redis_key)", expire, then the rate_limit_info is
\* built and (True, rate_limit_info) returned.
ReturnAllowed(c) ==
  /\ calls[c].pc = "redis"
  /\ \E o \in IoOutcomes :
       IF o = "ok"
         THEN /\ redis' = redis + 1
              /\ calls' = [calls EXCEPT
                   ![c].pc = "done", ![c].outcome = "allowed",
                   ![c].after = StoredCalls(usage),
                   ![c].info = [limit |-> tenant.max_api_calls_per_month,
                                remaining |-> tenant.max_api_calls_per_month - calls[c].read,
                                current |-> calls[c].read]]
         ELSE /\ redis' = redis
              /\ calls' = [calls EXCEPT ![c] = Failed(@, StoredCalls(usage))]
  /\ UNCHANGED <<hookVars, request, now, config, crawlerVars, jobVars, tenant, usage, rate_limit_logs>>

\* A tenant with its quota, and the usage row of the month as earlier calls
\* left it (a plan change can leave the count above the quota).
InitRate ==
  /\ config = [mode |-> "fast", max_depth |-> 0, max_pages |-> 1, delay |-> 0,
               site |-> "down", capture_screenshot |-> FALSE]
  /\ visited_urls = {}
  /\ pages = << >>
  /\ errors = << >>
  /\ should_stop = FALSE
  /\ res = [n \in {"session", "context", "browser"} |-> NoResource]
  /\ tasks = << >>
  /\ crawlPc = "idle"
  /\ result = NoResult
  /\ job = [status |-> "pending", pages_discovered |-> 0, pages_crawled |-> 0,
            pages_failed |-> 0, error_message |-> "none"]
  /\ taskPc = "queued"
  /\ db = [pages |-> {}, links |-> {}, indexed |-> "no"]
  /\ deliveries = 1
  /\ stoppedAt = -1
  /\ tabs = << >>
  /\ crawler = NoCrawler
  /\ exc = "none"
  /\ tenant \in [max_api_calls_per_month : 0..MaxQuota]
  /\ usage \in {NoUsage} \cup [exists : {TRUE}, total_api_calls : 0..(MaxQuota + 1)]
  /\ redis = StoredCalls(usage)
  /\ rate_limit_logs = 0
  /\ calls = [c \in Calls |-> NoCall]
  /\ now = 0
  /\ IdleHook
  /\ request = NoRequest

NextRate ==
  \/ \E c \in Calls : GetOrCreateUsage(c)
  \/ \E c \in Calls : DenyCall(c)
  \/ \E c \in Calls : IncrementUsage(c)
  \/ \E c \in Calls : ReturnAllowed(c)

SpecRateLimit == InitRate /\ [][NextRate]_vars

\* ------------------------------------------------------ concurrent requests
\* The requests of one tenant at the start of a month, each in its own
\* dispatch with its own session: the steps of their check_and_increment
\* calls interleave at every await.
InitRateConcurrent ==
  /\ config = [mode |-> "fast", max_depth |-> 0, max_pages |-> 1, delay |-> 0,
               site |-> "down", capture_screenshot |-> FALSE]
  /\ visited_urls = {}
  /\ pages = << >>
  /\ errors = << >>
  /\ should_stop = FALSE
  /\ res = [n \in {"session", "context", "browser"} |-> NoResource]
  /\ tasks = << >>
  /\ crawlPc = "idle"
  /\ result = NoResult
  /\ job = [status |-> "pending", pages_discovered |-> 0, pages_crawled |-> 0,
            pages_failed |-> 0, error_message |-> "none"]
  /\ taskPc = "queued"
  /\ db = [pages |-> {}, links |-> {}, indexed |-> "no"]
  /\ deliveries = 1
  /\ stoppedAt = -1
  /\ tabs = << >>
  /\ crawler = NoCrawler
  /\ exc = "none"
  /\ tenant \in [max_api_calls_per_month : 0..MaxQuota]
  /\ usage \in {NoUsage, [exists |-> TRUE, total_api_calls |-> 0]}
  /\ redis = 0
  /\ rate_limit_logs = 0
  /\ calls = [c \in Calls |-> NoCall]
  /\ now = 0
  /\ IdleHook
  /\ request = NoRequest

NextRateConcurrent ==
  \/ \E c \in Calls : LoadUsage(c)
  \/ \E c \in Calls : DenyCall(c)
  \/ \E c \in Calls : IncrementUsage(c)
  \/ \E c \in Calls : ReturnAllowed(c)

SpecRateConcurrent == InitRateConcurrent /\ [][NextRateConcurrent]_vars

\* ------------------------------------------------------ rate-limit middleware
MaxRequests == 2

\* What dispatch sees of a request: a path of EXCLUDED_PATHS, an OPTIONS
\* request, a request without request.state.tenant, a request of a tenant.
RequestKinds == {"excluded", "options", "anonymous", "tenant"}

\* The downstream handler returns a response or raises.
HandlerOutcomes == {"returned", "raised"}

\* "db: AsyncSession = SessionLocal()": SessionLocal is the synchronous
\* sessionmaker of app.core.database, so db.execute(...) returns a Result and
\* db.close() returns None, and "await" on either raises TypeError.
AsyncSessionAwait == "ok"
SessionLocalAwait == "TypeError"

\* "return await call_next(request)" outside the try block.
PassThrough(r, h) ==
  [r EXCEPT !.pc = "done", !.call_next = @ + 1, !.handler = h,
            !.response = IF h = "returned" THEN "handler" ELSE "raised"]

\* dispatch up to "db = SessionLocal()": the three early returns, each
\* through call_next.
Receive ==
  /\ request.pc \in {"idle", "done"} /\ request.n < MaxRequests
  /\ \E k \in RequestKinds, a \in BOOLEAN, h \in HandlerOutcomes :
       LET r == [NoRequest EXCEPT !.kind = k, !.n = request.n + 1,
                                  !.tenant_active = (k = "tenant" /\ a)]
       IN  request' = IF k = "tenant" THEN [r EXCEPT !.pc = "try"] ELSE PassThrough(r, h)
  /\ UNCHANGED <<hookVars, now, rateVars, config, crawlerVars, jobVars>>

\* The try block: check_tenant_active, check_and_increment, call_next and
\* the headers.  check_and_increment ends at its first "await
\* self.db.execute(...)" when the result cannot be awaited.
TryBlock ==
  /\ request.pc = "try"
  /\ IF ~request.tenant_active
       THEN /\ request' = [request EXCEPT !.pc = "except_rate_limit"]
            /\ UNCHANGED rateVars
     ELSE IF SessionLocalAwait # "ok"
       THEN /\ request' = [request EXCEPT !.pc = "except"]
            /\ UNCHANGED rateVars
     ELSE IF IsOverQuota(StoredCalls(usage), tenant.max_api_calls_per_month)
       THEN /\ request' = [request EXCEPT !.pc = "except_rate_limit"]
            /\ usage' = [exists |-> TRUE, total_api_calls |-> StoredCalls(usage)]
            /\ rate_limit_logs' = rate_limit_logs + 1
            /\ UNCHANGED <<tenant, redis, calls>>
     ELSE /\ usage' = [exists |-> TRUE, total_api_calls |-> StoredCalls(usage) + 1]
          /\ redis' = redis + 1
          /\ \E h \in HandlerOutcomes :
               request' = [request EXCEPT
                 !.call_next = @ + 1, !.handler = h,
                 !.response = IF h = "returned" THEN "handler" ELSE @,
                 !.pc = IF h = "returned" THEN "finally" ELSE "except"]
          /\ UNCHANGED <<tenant, rate_limit_logs, calls>>
  /\ UNCHANGED <<hookVars, now, config, crawlerVars, jobVars>>

\* "except RateLimitException": the 429 response.
ExceptRateLimit ==
  /\ request.pc = "except_rate_limit"
  /\ request' = [request EXCEPT !.pc = "finally", !.response = "429"]
  /\ UNCHANGED <<hookVars, now, rateVars, config, crawlerVars, jobVars>>

\* "except Exception": "return await call_next(request)".
ExceptException ==
  /\ request.pc = "except"
  /\ \E h \in HandlerOutcomes :
       request' = [request EXCEPT
         !.pc = "finally", !.call_next = @ + 1, !.handler = h,
         !.response = IF h = "returned" THEN "handler" ELSE "raised"]
  /\ UNCHANGED <<hookVars, now, rateVars, config, crawlerVars, jobVars>>

\* "finally: await db.close()": an exception raised here replaces the
\* response that was about to be returned.
Finally ==
  /\ request.pc = "finally"
  /\ request' = [request EXCEPT
       !.pc = "done",
       !.response = IF SessionLocalAwait = "ok" THEN @ ELSE "raised"]
  /\ UNCHANGED <<hookVars, now, rateVars, config, crawlerVars, jobVars>>

InitMiddleware ==
  /\ config = [mode |-> "fast", max_depth |-> 0, max_pages |-> 1, delay |-> 0,
               site |-> "down", capture_screenshot |-> FALSE]
  /\ visited_urls = {}
  /\ pages = << >>
  /\ errors = << >>
  /\ should_stop = FALSE
  /\ res = [n \in {"session", "context", "browser"} |-> NoResource]
  /\ tasks = << >>
  /\ crawlPc = "idle"
  /\ result = NoResult
  /\ job = [status |-> "pending", pages_discovered |-> 0, pages_crawled |-> 0,
            pages_failed |-> 0, error_message |-> "none"]
  /\ taskPc = "queued"
  /\ db = [pages |-> {}, links |-> {}, indexed |-> "no"]
  /\ deliveries = 1
  /\ stoppedAt = -1
  /\ tabs = << >>
  /\ crawler = NoCrawler
  /\ exc = "none"
  /\ tenant \in [max_api_calls_per_month : 0..MaxQuota]
  /\ usage \in {NoUsage} \cup [exists : {TRUE}, total_api_calls : 0..(MaxQuota + 1)]
  /\ redis = StoredCalls(usage)
  /\ rate_limit_logs = 0
  /\ calls = [c \in Calls |-> NoCall]
  /\ now = 0
  /\ IdleHook
  /\ request = NoRequest

NextMiddleware ==
  \/ Receive
  \/ TryBlock
  \/ ExceptRateLimit
  \/ ExceptException
  \/ Finally

SpecMiddleware == InitMiddleware /\ [][NextMiddleware]_vars

\* ------------------------------------------------------------ specification
\* capture_screenshot is a key of the js configuration only.
Configs ==
  {c \in [mode : Modes, max_depth : 0..MaxDepthBound, max_pages : 1..MaxPagesBound,
          delay : Delays, site : Sites, capture_screenshot : BOOLEAN] :
     c.mode = "fast" => ~c.capture_screenshot}

Init ==
  /\ config \in Configs
  /\ visited_urls = {}
  /\ pages = << >>
  /\ errors = << >>
  /\ should_stop = FALSE
  /\ res = [n \in {"session", "context", "browser"} |-> NoResource]
  /\ tasks = << >>
  /\ crawlPc = "idle"
  /\ result = NoResult
  /\ job = [status |-> "pending", pages_discovered |-> 0, pages_crawled |-> 0,
            pages_failed |-> 0, error_message |-> "none"]
  /\ taskPc = "queued"
  /\ db = [pages |-> {}, links |-> {}, indexed |-> "no"]
  /\ deliveries = 1
  /\ stoppedAt = -1
  /\ tabs = << >>
  /\ crawler = NoCrawler
  /\ exc = "none"
  /\ IdleRate
  /\ now = 0
  /\ IdleHook
  /\ request = NoRequest

Next ==
  \/ TaskStart
  \/ CrawlBegin
  \/ \E i \in 1..Len(tasks) : WakeFromSleep(i)
  \/ \E i \in 1..Len(tasks) : RetryAttempt(i)
  \/ \E i \in 1..Len(tasks) : FetchFails(i)
  \/ \E i \in 1..Len(tasks) : FastFetchReturns(i)
  \/ \E i \in 1..Len(tasks) : StartChildren(i)
  \/ \E i \in 1..Len(tasks) : GatherDone(i)
  \/ \E i \in 1..Len(tasks) : JsFetchReturns(i)
  \/ \E i \in 1..Len(tasks) : JsCrawlLinks(i)
  \/ Stop
  \/ CrawlReturn
  \/ SavePages
  \/ CreateLinks
  \/ FinishJob
  \/ UpdateProject
  \/ ExceptHandler
  \/ OnFailure

Spec == Init /\ [][Next]_vars


\* ------------------------------------------------------------- re-delivery
MaxDeliveries == 2

\* The broker delivers the crawl_site message for the job once more
\* (task_acks_late, task_reject_on_worker_lost): crawl_site starts over with
\* a new crawler instance on the same CrawlJob row.
Redeliver ==
  /\ taskPc = "ended" /\ deliveries < MaxDeliveries
  /\ deliveries' = deliveries + 1
  /\ taskPc' = "queued"
  /\ visited_urls' = {} /\ pages' = << >> /\ errors' = << >>
  /\ should_stop' = FALSE
  /\ res' = [n \in DOMAIN res |-> NoResource]
  /\ tasks' = << >> /\ crawlPc' = "idle" /\ result' = NoResult
  /\ stoppedAt' = -1 /\ tabs' = << >>
  /\ crawler' = NoCrawler /\ exc' = "none"
  /\ UNCHANGED <<hookVars, request, now, rateVars, config, job, db>>

SpecRedelivery == Init /\ [][Next \/ Redeliver]_vars

\* ----------------------------------------------------------------- factory
\* CrawlerFactory.create takes any string as mode (CrawlJob.mode is a
\* String(20) column); crawl_site applies it to job.mode and the
\* configuration it built.
FactoryModes == {"fast", "js", "invalid", "FAST", ""}

FactoryConfigs ==
  {c \in [mode : FactoryModes, max_depth : 0..MaxDepthBound,
          max_pages : 1..MaxPagesBound, delay : Delays, site : Sites,
          capture_screenshot : BOOLEAN] :
     c.mode # "js" => ~c.capture_screenshot}

InitFactory ==
  /\ config \in FactoryConfigs
  /\ visited_urls = {}
  /\ pages = << >>
  /\ errors = << >>
  /\ should_stop = FALSE
  /\ res = [n \in {"session", "context", "browser"} |-> NoResource]
  /\ tasks = << >>
  /\ crawlPc = "idle"
  /\ result = NoResult
  /\ job = [status |-> "pending", pages_discovered |-> 0, pages_crawled |-> 0,
            pages_failed |-> 0, error_message |-> "none"]
  /\ taskPc = "queued"
  /\ db = [pages |-> {}, links |-> {}, indexed |-> "no"]
  /\ deliveries = 1
  /\ stoppedAt = -1
  /\ tabs = << >>
  /\ crawler = NoCrawler
  /\ exc = "none"
  /\ IdleRate
  /\ now = 0
  /\ IdleHook
  /\ request = NoRequest

SpecFactory == InitFactory /\ [][TaskStart]_vars

\* ------------------------------------------------------ concurrent fetches
\* A static-mode run on SiteWide, followed for as long as the slow servers
\* have not answered: the start page and the page of its first link answer,
\* the other fetches stay in flight.
PoolConfigs ==
  {c \in [mode : {"fast"}, max_depth : 0..MaxDepthBound, max_pages : 1..MaxPagesBound,
          delay : Delays, site : {"wide"}, capture_screenshot : {FALSE}] : TRUE}

InitPool ==
  /\ config \in PoolConfigs
  /\ visited_urls = {}
  /\ pages = << >>
  /\ errors = << >>
  /\ should_stop = FALSE
  /\ res = [n \in {"session", "context", "browser"} |-> NoResource]
  /\ tasks = << >>
  /\ crawlPc = "idle"
  /\ result = NoResult
  /\ job = [status |-> "pending", pages_discovered |-> 0, pages_crawled |-> 0,
            pages_failed |-> 0, error_message |-> "none"]
  /\ taskPc = "queued"
  /\ db = [pages |-> {}, links |-> {}, indexed |-> "no"]
  /\ deliveries = 1
  /\ stoppedAt = -1
  /\ tabs = << >>
  /\ crawler = NoCrawler
  /\ exc = "none"
  /\ IdleRate
  /\ now = 0
  /\ IdleHook
  /\ request = NoRequest

NextPool ==
  \/ TaskStart
  \/ CrawlBegin
  \/ \E i \in 1..Len(tasks) : WakeFromSleep(i)
  \/ \E i \in 1..Len(tasks) : tasks[i].item.url \notin SlowUrls /\ FastFetchReturns(i)
  \/ \E i \in 1..Len(tasks) : StartChildren(i)
  \/ \E i \in 1..Len(tasks) : GatherDone(i)

SpecPool == InitPool /\ [][NextPool]_vars

\* --------------------------------------------------------- politeness delay
MaxTime == 3

\* Time passes while the coroutines of the run wait.
Tick ==
  /\ crawlPc = "running" /\ now < MaxTime
  /\ now' = now + 1
  /\ UNCHANGED <<hookVars, request, rateVars, config, crawlerVars, jobVars>>

PoliteConfigs ==
  {c \in [mode : {"fast"}, max_depth : 0..MaxDepthBound, max_pages : 1..MaxPagesBound,
          delay : Delays, site : {"fan", "hub"}, capture_screenshot : {FALSE}] : TRUE}

InitPolite ==
  /\ config \in PoliteConfigs
  /\ visited_urls = {}
  /\ pages = << >>
  /\ errors = << >>
  /\ should_stop = FALSE
  /\ res = [n \in {"session", "context", "browser"} |-> NoResource]
  /\ tasks = << >>
  /\ crawlPc = "idle"
  /\ result = NoResult
  /\ job = [status |-> "pending", pages_discovered |-> 0, pages_crawled |-> 0,
            pages_failed |-> 0, error_message |-> "none"]
  /\ taskPc = "queued"
  /\ db = [pages |-> {}, links |-> {}, indexed |-> "no"]
  /\ deliveries = 1
  /\ stoppedAt = -1
  /\ tabs = << >>
  /\ crawler = NoCrawler
  /\ exc = "none"
  /\ IdleRate
  /\ now = 0
  /\ IdleHook
  /\ request = NoRequest

\* A static-mode run with its clock: a sleeping coroutine goes on once its
\* timer has expired.
NextPolite ==
  \/ TaskStart
  \/ CrawlBegin
  \/ Tick
  \/ \E i \in 1..Len(tasks) : now >= tasks[i].wake /\ WakeFromSleep(i)
  \/ \E i \in 1..Len(tasks) : RetryAttempt(i)
  \/ \E i \in 1..Len(tasks) : FetchFails(i)
  \/ \E i \in 1..Len(tasks) : FastFetchReturns(i)
  \/ \E i \in 1..Len(tasks) : StartChildren(i)
  \/ \E i \in 1..Len(tasks) : GatherDone(i)
  \/ CrawlReturn

SpecPolite == InitPolite /\ [][NextPolite]_vars

\* ------------------------------------------------------- webhook deliveries
MaxRetriesBound == 2
MaxPosts == 4
RetryDelays == {1}
RetryCap == 3600
BatchLimit == 100
\* next_retry_at of a delivery that has no retry scheduled (NULL).
NoRetryAt == -1

\* The answers of webhook.url to a POST: a 2xx status, another status, a
\* timeout, any other exception.
PostOutcomes == {"2xx", "non2xx", "timeout", "error"}

\* "if 200 <= response.status_code < 300"
IsDelivered(o) == o = "2xx"

Min2(a, b) == IF a < b THEN a ELSE b

\* _calculate_retry_time: utcnow() + min(base_delay * 2^(attempt-1), 3600)
CalculateRetryTime(attempt, base_delay) ==
  now + Min2(base_delay * (2 ^ (attempt - 1)), RetryCap)

\* "if delivery.attempt_number < webhook.max_retries" of the three failure
\* branches.
SchedulesRetry(attempt) == attempt < webhook.max_retries

\* The WebhookDelivery row an attempt leaves: success, attempt_number,
\* next_retry_at.
DeliveryRow(attempt, o) ==
  [attempt_number |-> attempt,
   success |-> IsDelivered(o),
   next_retry_at |-> IF ~IsDelivered(o) /\ SchedulesRetry(attempt)
                       THEN CalculateRetryTime(attempt, webhook.retry_delay)
                       ELSE NoRetryAt]

\* One POST: who sent it and, for retry(), the id of the delivery it was
\* given.
Post(by, d) == [by |-> by, retry_of |-> d]

\* deliver: the first attempt of the event; the row is added and committed
\* after the POST.
Deliver ==
  /\ posts = << >> /\ hook_deliveries = << >>
  /\ \E o \in PostOutcomes, c \in IoOutcomes :
       /\ posts' = Append(posts, Post("deliver", 0))
       /\ hook_deliveries' = IF c = "ok" THEN <<DeliveryRow(1, o)>> ELSE << >>
  /\ UNCHANGED <<webhook, batch, request, now, rateVars, config, crawlerVars, jobVars>>

\* retry(delivery) on an active webhook: a new row with attempt_number + 1,
\* the POST, the commit of the new row.  The row of delivery is not written.
RetrySends(by, d, o, c) ==
  /\ Len(posts) < MaxPosts
  /\ posts' = Append(posts, Post(by, d))
  /\ hook_deliveries' =
       IF c = "ok"
         THEN Append(hook_deliveries, DeliveryRow(hook_deliveries[d].attempt_number + 1, o))
         ELSE hook_deliveries

\* retry_webhook_delivery (POST .../deliveries/{delivery_id}/retry): retry()
\* for any delivery that did not succeed.
ManualRetry(d) ==
  /\ ~hook_deliveries[d].success
  /\ webhook.is_active
  /\ \E o \in PostOutcomes, c \in IoOutcomes : RetrySends("api", d, o, c)
  /\ UNCHANGED <<webhook, batch, request, now, rateVars, config, crawlerVars, jobVars>>

IsPending(row) ==
  ~row.success /\ row.next_retry_at # NoRetryAt /\ row.next_retry_at <= now

RECURSIVE PendingFrom(_)
PendingFrom(d) ==
  IF d > Len(hook_deliveries) THEN << >>
  ELSE IF IsPending(hook_deliveries[d]) THEN <<d>> \o PendingFrom(d + 1)
  ELSE PendingFrom(d + 1)

\* The rows the query of process_pending_retries returns (".limit(100)").
PendingDeliveries ==
  SubSeq(PendingFrom(1), 1, Min2(Len(PendingFrom(1)), BatchLimit))

\* process_pending_retries, the query.
SelectPending ==
  /\ batch.pc = "idle"
  /\ PendingDeliveries # << >>
  /\ batch' = [pc |-> "retrying", ids |-> PendingDeliveries]
  /\ UNCHANGED <<webhook, hook_deliveries, posts, request, now, rateVars, config,
                 crawlerVars, jobVars>>

\* process_pending_retries, one turn of "for delivery in deliveries":
\* retry(delivery), whose ValueError on a disabled webhook is printed.
ProcessRetry ==
  /\ batch.pc = "retrying"
  /\ IF webhook.is_active
       THEN \E o \in PostOutcomes, c \in IoOutcomes :
              RetrySends("process", Head(batch.ids), o, c)
       ELSE UNCHANGED <<hook_deliveries, posts>>
  /\ batch' = IF Tail(batch.ids) = << >> THEN NoBatch
              ELSE [batch EXCEPT !.ids = Tail(batch.ids)]
  /\ UNCHANGED <<webhook, request, now, rateVars, config, crawlerVars, jobVars>>

\* Time passes after the event.
HookTick ==
  /\ posts # << >> /\ now < MaxTime
  /\ now' = now + 1
  /\ UNCHANGED <<hookVars, request, rateVars, config, crawlerVars, jobVars>>

InitWebhook ==
  /\ config = [mode |-> "fast", max_depth |-> 0, max_pages |-> 1, delay |-> 0,
               site |-> "down", capture_screenshot |-> FALSE]
  /\ visited_urls = {}
  /\ pages = << >>
  /\ errors = << >>
  /\ should_stop = FALSE
  /\ res = [n \in {"session", "context", "browser"} |-> NoResource]
  /\ tasks = << >>
  /\ crawlPc = "idle"
  /\ result = NoResult
  /\ job = [status |-> "pending", pages_discovered |-> 0, pages_crawled |-> 0,
            pages_failed |-> 0, error_message |-> "none"]
  /\ taskPc = "queued"
  /\ db = [pages |-> {}, links |-> {}, indexed |-> "no"]
  /\ deliveries = 1
  /\ stoppedAt = -1
  /\ tabs = << >>
  /\ crawler = NoCrawler
  /\ exc = "none"
  /\ IdleRate
  /\ now = 0
  /\ webhook \in [max_retries : 0..MaxRetriesBound, is_active : BOOLEAN,
                  retry_delay : RetryDelays]
  /\ hook_deliveries = << >>
  /\ posts = << >>
  /\ batch = NoBatch
  /\ request = NoRequest

NextWebhook ==
  \/ Deliver
  \/ \E d \in 1..Len(hook_deliveries) : ManualRetry(d)
  \/ SelectPending
  \/ ProcessRetry
  \/ HookTick

SpecWebhook == InitWebhook /\ [][NextWebhook]_vars

\* ------------------------------------------------------------------ claims
PagesFor(u) == Cardinality({k \in 1..Len(pages) : pages[k].url = u})
ErrorsFor(u) == Cardinality({k \in 1..Len(errors) : errors[k].url = u})
PassedChecks(t) == t.pc \notin {"new", "skipped", "raised"}
RunEnded == crawlPc \in {"returned", "raised"}
Responses(h) == Cardinality({k \in 1..Len(h) : h[k] = "resp"})

\* C1: in every run of either crawler the number of PageRecords never
\* exceeds max_pages, also when children of one page are crawled concurrently.
C1_PagesWithinMax == Len(pages) <= max_pages

\* C2: for every run that ends, total_crawled + total_failed <=
\* total_discovered.
C2_CountersWithinDiscovered ==
  crawlPc = "returned" =>
    result.total_crawled + result.total_failed <= result.total_discovered

\* C3: after a run ends, each fetch resource that was acquired has been
\* closed exactly once.
C3_ClosedExactlyOnce ==
  RunEnded => \A n \in DOMAIN res : res[n].acquired => res[n].closes = 1

\* C4: once the job status is completed, failed or cancelled, no later step
\* changes it.
C4_TerminalIsFinal ==
  [][job.status \in Terminal => job'.status = job.status]_vars

GotResponse(t) == Responses(t.hist) > 0
AllResponses(t) == t.hist # << >> /\ Responses(t.hist) = Len(t.hist)
StatusOf(t) == site.status[t.item.url]

C6_StopEndsCancelled ==
  (taskPc = "ended" /\ stoppedAt >= 0 /\ job.status # "failed")
  => (/\ job.status = "cancelled"
      /\ job.pages_crawled >= stoppedAt
      /\ \A n \in DOMAIN res : res[n].acquired => res[n].closes > 0)

\* C7: a URL whose fetch fails twice and then succeeds has exactly one
\* PageRecord and no CrawlError; a URL whose fetch fails three times has
\* exactly one CrawlError and no PageRecord.
C7_RetryOutcome ==
  \A i \in 1..Len(tasks) :
    /\ (tasks[i].pc = "done" /\ tasks[i].hist = <<"exc", "exc", "resp">>)
         => (PagesFor(tasks[i].item.url) = 1 /\ ErrorsFor(tasks[i].item.url) = 0)
    /\ (tasks[i].pc = "done" /\ tasks[i].hist = <<"exc", "exc", "exc">>)
         => (PagesFor(tasks[i].item.url) = 0 /\ ErrorsFor(tasks[i].item.url) = 1)

Is4xx(t) == StatusOf(t) >= 400 /\ StatusOf(t) < 500

C9_UniqueFingerprint ==
  \A i, j \in 1..Len(pages) : i # j => pages[i].url_hash # pages[j].url_hash

C9_Witness ==
  /\ crawlPc = "returned"
  /\ \E i, j \in 1..Len(tasks) :
       /\ tasks[i].item.url = tasks[j].item.url
       /\ tasks[i].parent # tasks[j].parent
       /\ tasks[i].pc = "done" /\ GotResponse(tasks[i])
       /\ tasks[j].pc = "skipped"
       /\ PagesFor(tasks[i].item.url) = 1

\* C10: a URL is in the visited set from the step in which it passes the
\* checks (before its fetch is dispatched), and no URL is fetched by more
\* than one _crawl_url call of a run.
C10_FetchedOnce ==
  /\ \A i \in 1..Len(tasks) :
       PassedChecks(tasks[i]) => tasks[i].item.url \in visited_urls
  /\ \A i, j \in 1..Len(tasks) :
       (i # j /\ PassedChecks(tasks[i]) /\ PassedChecks(tasks[j]))
         => tasks[i].item.url # tasks[j].item.url

C10_Witness ==
  \E i, j \in 1..Len(tasks) :
    /\ tasks[i].item.url = tasks[j].item.url
    /\ tasks[i].parent # tasks[j].parent
    /\ tasks[i].depth = tasks[j].depth
    /\ tasks[i].pc \in {"sleep", "fetch"} /\ tasks[i].hist = << >>
    /\ tasks[j].pc = "skipped"

\* C11: every PageRecord of a run has depth <= the configured max_depth, and
\* no _crawl_url call at a greater depth gets past the checks (so no URL at
\* depth max_depth + 1 is fetched).
C11_DepthWithinMax ==
  /\ \A k \in 1..Len(pages) : pages[k].depth <= config.max_depth
  /\ \A i \in 1..Len(tasks) :
       PassedChecks(tasks[i]) => tasks[i].depth <= config.max_depth

\* A page at depth max_depth whose document links to an internal, crawlable
\* URL that the finished run never visited.
C11_Witness ==
  /\ crawlPc = "returned" /\ config.max_depth >= 1
  /\ \E k \in 1..Len(pages) :
       /\ pages[k].depth = config.max_depth
       /\ \E j \in 1..Len(pages[k].outgoing_links) :
            /\ pages[k].outgoing_links[j].url \notin visited_urls
            /\ ShouldCrawlUrl(pages[k].outgoing_links[j].url)
       /\ Len(pages) < max_pages

\* C12: in rendered mode every tab an attempt opened has had no close() call
\* while the attempt is under way and exactly one once the attempt has left
\* _crawl_url's try block, whatever the exit: extracted, navigation failure,
\* screenshot failure, parse failure; a finished run leaves no tab open.
C12_TabClosedOnce ==
  /\ \A k \in 1..Len(tabs) :
       tabs[k].closes = (IF tabs[k].exit = "open" THEN 0 ELSE 1)
  /\ \A i \in 1..Len(tasks) :
       tasks[i].pc = "done" =>
         \A k \in 1..Len(tabs) : tabs[k].exit # "open"
  /\ \A i \in 1..Len(tasks) :
       tasks[i].pc = "closing" =>
         (tasks[i].page_obj > 0 /\ tabs[tasks[i].page_obj].exit = "open")

\* Navigation failed twice, the third attempt ended in a parse failure with
\* a failed screenshot, and each of the three tabs has exactly one close.
C12_Witness ==
  /\ crawlPc = "returned" /\ Len(tabs) = 3
  /\ tabs[1].exit = "nav_fail" /\ tabs[2].exit = "nav_fail"
  /\ tabs[3].exit = "parse_fail" /\ tabs[3].shot = "failed"
  /\ \A k \in 1..3 : tabs[k].closes = 1

\* The fetch of the task's URL failed on all three attempts, or its document
\* could not be parsed.
TerminallyFailed(t) ==
  /\ t.pc = "done"
  /\ \/ (Len(t.hist) = RetryAttempts /\ Responses(t.hist) = 0)
     \/ (GotResponse(t) /\ ParseRaises(t.item.url))

\* C13: a terminal failure of one URL is recorded as one CrawlError of that
\* URL and of no other: every CrawlError names a URL whose own fetch or
\* extraction failed, the siblings of a failed URL that passed the checks are
\* still crawled to a page or to their own failure, and crawl() returns.
C13_FailureIsolated ==
  /\ \A k \in 1..Len(errors) :
       \E i \in 1..Len(tasks) :
         tasks[i].item.url = errors[k].url /\ TerminallyFailed(tasks[i])
  /\ \A i \in 1..Len(tasks) :
       TerminallyFailed(tasks[i]) =>
         (ErrorsFor(tasks[i].item.url) = 1 /\ crawlPc # "raised")
  /\ crawlPc = "returned" =>
       \A i, j \in 1..Len(tasks) :
         (/\ i # j /\ tasks[i].parent = tasks[j].parent
          /\ TerminallyFailed(tasks[i]) /\ PassedChecks(tasks[j]))
           => (/\ tasks[j].pc = "done"
               /\ PagesFor(tasks[j].item.url) = 1 \/ TerminallyFailed(tasks[j]))

C16_OnlyInternalFetched ==
  /\ \A i \in 1..Len(tasks) : Netloc(tasks[i].item.url) = Netloc(StartUrl)
  /\ \A u \in visited_urls : Netloc(u) = Netloc(StartUrl)
  /\ \A k \in 1..Len(pages) :
       /\ Netloc(pages[k].url) = Netloc(StartUrl)
       /\ \A j \in 1..Len(pages[k].outgoing_links) :
            Netloc(pages[k].outgoing_links[j].url) = Netloc(StartUrl)

\* A finished run that crawled a page whose document links to another host,
\* and crawled that page's internal links.
C16_Witness ==
  /\ crawlPc = "returned"
  /\ \E k \in 1..Len(pages) :
       /\ ExternalUrl \in Range(site.hrefs[pages[k].url])
       /\ \E i \in 1..Len(tasks) :
            /\ tasks[i].parent # 0
            /\ tasks[tasks[i].parent].item.url = pages[k].url
            /\ PagesFor(tasks[i].item.url) = 1

RowUrls == {r.url : r \in db.pages}

\* C17: every persisted Link has its source page and its target page among
\* the Page rows of the crawl job, and its source among the pages of a run's
\* result; no Link points at a URL that has no Page.
C17_NoDanglingLink ==
  /\ \A l \in db.links : l[1] \in RowUrls /\ l[2] \in RowUrls
  /\ taskPc = "finish" =>
       \A l \in db.links :
         \E k \in 1..Len(pages) :
           pages[k].url = l[1] /\ StrItem(l[2]) \in Range(pages[k].outgoing_links)

\* Links were committed, and a crawled page links to an internal URL that
\* has no Page row, for which no Link was made.
C17_Witness ==
  /\ taskPc = "finish" /\ db.links # {}
  /\ \E k \in 1..Len(pages) :
       /\ \E j \in 1..Len(pages[k].outgoing_links) :
            pages[k].outgoing_links[j].url \notin RowUrls
       /\ \E l \in db.links : l[1] = pages[k].url

RECURSIVE ExternalRecorded(_)
\* The external links the job has on record: the external_links_count of its
\* Page rows, and its Link rows whose target is on another host.
ExternalRecorded(rows) ==
  IF rows = {} THEN Cardinality({l \in db.links : Netloc(l[2]) # Netloc(StartUrl)})
  ELSE LET r == CHOOSE x \in rows : TRUE
       IN r.external_links_count + ExternalRecorded(rows \ {r})

\* The scenario: a depth-0 page with three internal links and one external
\* link, max_depth 1, and a max_pages that does not bind.
Scenario ==
  config.site = "hub" /\ config.max_depth = 1 /\ config.max_pages >= 4

C19_FactoryByMode ==
  taskPc # "queued" =>
    /\ config.mode = "fast" => (crawler.kind = "FastCrawler" /\ exc = "none")
    /\ config.mode = "js" => (crawler.kind = "PlaywrightCrawler" /\ exc = "none")
    /\ config.mode \in {"fast", "js"} =>
         (/\ crawler.start_url = StartUrl
          /\ crawler.max_depth = config.max_depth
          /\ crawler.max_pages = config.max_pages
          /\ crawler.delay = config.delay
          /\ crawler.capture_screenshot = config.capture_screenshot
          /\ taskPc = "crawl")
    /\ config.mode \notin {"fast", "js"} =>
         (/\ crawler = NoCrawler
          /\ exc = "ValueError: Unknown crawler mode"
          /\ taskPc = "handler")

\* The factory was applied to a mode that differs from "fast" only in case.
C19_Witness ==
  /\ config.mode = "FAST" /\ taskPc = "handler"
  /\ crawler = NoCrawler /\ exc = "ValueError: Unknown crawler mode"

\* C20: check_and_increment allows a call exactly when the stored count
\* before it is below max_api_calls_per_month; an allowed call raises the
\* count by exactly one and reports remaining = limit - new count; a denied
\* call raises RateLimitException with the limit and the current count and
\* leaves the count as it was.
C20_CheckAndIncrement ==
  \A c \in Calls :
    LET limit == tenant.max_api_calls_per_month IN
    /\ calls[c].outcome = "allowed" =>
         (/\ calls[c].before < limit
          /\ calls[c].after = calls[c].before + 1
          /\ calls[c].info.limit = limit
          /\ calls[c].info.current = calls[c].after
          /\ calls[c].info.remaining = limit - calls[c].after)
    /\ calls[c].outcome = "denied" =>
         (/\ calls[c].before >= limit
          /\ calls[c].after = calls[c].before
          /\ calls[c].raised = [limit |-> limit, current |-> calls[c].before])
    /\ calls[c].outcome \in {"allowed", "denied"} =>
         (calls[c].outcome = "allowed" <=> calls[c].before < limit)
    /\ calls[c].pc = "redis" => calls[c].before < limit

\* The call that uses up the quota is allowed with remaining 0, the next one
\* is denied with current = limit, and the count did not move.
C20_Witness ==
  /\ tenant.max_api_calls_per_month = MaxQuota
  /\ calls[1].outcome = "allowed" /\ calls[1].info.remaining = 0
  /\ calls[2].outcome = "denied" /\ calls[2].raised.current = MaxQuota
  /\ StoredCalls(usage) = MaxQuota /\ rate_limit_logs = 1

\* C21: once stop() has set the flag, no _crawl_url call that had not yet
\* dispatched its fetch dispatches it afterwards: neither a call that starts
\* after the flag was set nor one that was waiting in the politeness sleep.
C21_NoDispatchAfterStop ==
  [][\A i \in 1..Len(tasks) :
       (should_stop /\ tasks[i].pc \in {"new", "sleep"} /\ i <= Len(tasks'))
         => tasks'[i].pc # "fetch"]_vars

\* The fetches in flight: the _crawl_url calls that are inside _fetch_page.
InFlight == Cardinality({i \in 1..Len(tasks) : tasks[i].pc = "fetch"})

\* C22: at every moment of a static-mode run at most 10 fetches are in
\* flight, also when pages at several depths expand their children at the
\* same time.
C22_InFlightWithinLimit ==
  crawler.kind = "FastCrawler" => InFlight <= GatherLimit

\* C23: with a politeness delay > 0, any two fetches that start after the
\* first page has completed start at least one full delay apart, however
\* many _crawl_url calls run concurrently.
C23_DelayBetweenStarts ==
  delay > 0 =>
    \A i, j \in 1..Len(tasks) :
      (i # j /\ i # Root /\ j # Root /\ tasks[i].started >= 0 /\ tasks[j].started >= 0)
        => \/ tasks[i].started - tasks[j].started >= delay
           \/ tasks[j].started - tasks[i].started >= delay

\* The skip conditions of the claim for a link handed to _crawl_url.
Skippable(item, depth) ==
  \/ depth > max_depth
  \/ item.url \in visited_urls
  \/ ~ShouldCrawlUrl(item.url)
  \/ Len(pages) >= max_pages

PageOf(u) == pages[CHOOSE k \in 1..Len(pages) : pages[k].url = u]

\* C24: a _crawl_url call on a URL that is skipped (too deep, already
\* visited, rejected by the extension filter, max_pages reached) starts no
\* fetch and leaves visited_urls, pages and errors as they were: in static
\* mode for every call gather is about to start, in rendered mode for the
\* step that walks the links of a page.
C24_SkipHasNoEffect ==
  /\ [](\A i \in 1..Len(tasks) :
         (tasks[i].pc = "new" /\ Skippable(tasks[i].item, tasks[i].depth)) =>
           LET s == Started(tasks[i], visited_urls) IN
           /\ s.visited = visited_urls
           /\ s.task.pc = "skipped" /\ s.task.hist = << >> /\ s.task.started = -1)
  /\ [](\A i \in 1..Len(tasks) :
         tasks[i].pc = "skipped" => (tasks[i].hist = << >> /\ tasks[i].started = -1))
  /\ [][\A i \in 1..Len(tasks) :
         (/\ tasks[i].pc = "closing" /\ i <= Len(tasks') /\ tasks'[i].pc = "done"
          /\ tasks[i].depth < max_depth
          /\ \A k \in 1..Len(Take(PageOf(tasks[i].item.url).outgoing_links, LinksPerPage)) :
               Skippable(PageOf(tasks[i].item.url).outgoing_links[k], tasks[i].depth + 1))
         => (visited_urls' = visited_urls /\ pages' = pages /\ errors' = errors)]_vars

\* C25: two hrefs that differ only in their fragment are one URL: at most
\* one _crawl_url call passes the checks for them, and the run has at most
\* one PageRecord for them.
C25_FragmentsAreOneUrl ==
  /\ \A i, j \in 1..Len(tasks) :
       (i # j /\ PassedChecks(tasks[i]) /\ PassedChecks(tasks[j]))
         => StripFragment(tasks[i].item.url) # StripFragment(tasks[j].item.url)
  /\ \A k, l \in 1..Len(pages) :
       k # l => StripFragment(pages[k].url) # StripFragment(pages[l].url)

\* The internal URLs the document of u links to that pass the extension
\* filter.
Successors(u) ==
  {v \in {Resolve(u, site.hrefs[u][k]) : k \in 1..Len(site.hrefs[u])} :
     Netloc(v) = Netloc(u) /\ ShouldCrawlUrl(v)}

RECURSIVE ReachableWithin(_)
\* The URLs a chain of at most d links leads to from the start URL.
ReachableWithin(d) ==
  IF d = 0 THEN {StartUrl}
  ELSE LET r == ReachableWithin(d - 1) IN r \cup UNION {Successors(u) : u \in r}

\* No attempt of any fetch raised, and every fetched document was parsed.
NoFetchFailure ==
  \A i \in 1..Len(tasks) :
    "exc" \notin Range(tasks[i].hist) /\ ~ParseRaises(tasks[i].item.url)

\* C26: when crawl() returns without max_pages being reached, without stop()
\* and without a failed fetch attempt, every internal URL that passes the
\* extension filter and lies within max_depth links of the start URL has a
\* PageRecord, in both modes.
C26_ReachableIsCrawled ==
  (/\ crawlPc = "returned" /\ Len(pages) < max_pages
   /\ ~should_stop /\ NoFetchFailure)
  => \A u \in ReachableWithin(max_depth) : PagesFor(u) >= 1

\* The (source, target) pairs of crawled pages for which the source page
\* holds two or more links to the target.
RepeatedPairs ==
  {<<pages[k].url, pages[k].outgoing_links[a].url>> :
     <<k, a>> \in {x \in (1..Len(pages)) \X (1..LinksPerPage + 1) :
                    /\ x[2] <= Len(pages[x[1]].outgoing_links)
                    /\ \E b \in 1..Len(pages[x[1]].outgoing_links) :
                         /\ b # x[2]
                         /\ pages[x[1]].outgoing_links[b] = pages[x[1]].outgoing_links[x[2]]
                    /\ PagesFor(pages[x[1]].outgoing_links[x[2]].url) > 0}}

\* C27: the unique (source_page_id, target_page_id) index is never violated
\* at the commit of the links, and a task that met a page with repeated links
\* to a crawled target, and no other failure, ends "completed" with that
\* pair persisted as one Link.
C27_RepeatedLinkPersistedOnce ==
  /\ exc # "IntegrityError"
  /\ (/\ taskPc = "ended" /\ crawlPc = "returned" /\ RepeatedPairs # {}
      /\ exc \notin {"OperationalError", "TypeError"})
     => (job.status = "completed" /\ RepeatedPairs \subseteq db.links)

\* The POSTs deliver and process_pending_retries sent for the event.
AutomaticPosts == {i \in 1..Len(posts) : posts[i].by # "api"}

\* C28: for one webhook and one event, deliver, retry and the repeated
\* process_pending_retries calls never make more delivery attempts than
\* webhook.max_retries, and process_pending_retries does not retry a failed
\* delivery that has been retried before.
C28_RetriesBounded ==
  /\ webhook.max_retries >= 1 => Cardinality(AutomaticPosts) <= webhook.max_retries
  /\ \A i, j \in 1..Len(posts) :
       (i < j /\ posts[j].by = "process") => posts[i].retry_of # posts[j].retry_of

\* The requests check_and_increment let through.
AllowedCalls == {c \in Calls : calls[c].outcome = "allowed"}

\* C29: under any interleaving of the concurrent requests of one tenant,
\* each on its own session, no more than max_api_calls_per_month requests of
\* the month are allowed, and once the requests have ended the stored
\* total_api_calls is the number of allowed requests.
C29_QuotaUnderConcurrency ==
  /\ Cardinality(AllowedCalls) <= tenant.max_api_calls_per_month
  /\ (\A c \in Calls : calls[c].pc \in {"idle", "done"} /\ calls[c].outcome # "error")
       => StoredCalls(usage) = Cardinality(AllowedCalls)

====
